---------------------------- MODULE Spec2Model ----------------------------
(***************************************************************************)
(* A model of the single-host HTTP file server of src/src/main.rs.         *)
(*                                                                         *)
(* Rust strings are modelled as sequences of bytes.  An ASCII byte is the  *)
(* one-character string of its character; the bytes of the two-byte UTF-8  *)
(* character U+00E9 are "C3" and "A9"; "FF" is a byte that occurs in no    *)
(* UTF-8 text.  The length of a string is its number of bytes, as for      *)
(* str::len.                                                               *)
(***************************************************************************)
EXTENDS Naturals, Sequences, FiniteSets

VARIABLES
  fs,            \* the files on disk
  http_request,  \* the lines handle_connection has collected
  result,        \* what the last run of handle_connection did
  pc,            \* where the main thread is
  conns,         \* the connections: what each client sent, read and received
  cur            \* the connection handle_connection is running on (0: none)

vars == <<fs, http_request, result, pc, conns, cur>>

---------------------------------------------------------------------------
(* Bounds of the model. *)

\* longest request target generated over PathAlphabet
MaxPathLen == 3
\* most header lines in one request
MaxHeaders == 2
\* most regular files present in one filesystem state
MaxFiles == 2
\* connections opened in one run of the server
MaxConns == 2

---------------------------------------------------------------------------
(* Strings: std::str operations used by the program. *)

Whitespace == {" ", "\t"}

ContinuationBytes == {"A9"}
LeadBytes == {"C3"}
InvalidBytes == {"FF"}

ascii_lower(b) ==
  CASE b = "A" -> "a" [] b = "B" -> "b" [] b = "C" -> "c" [] b = "D" -> "d"
    [] b = "E" -> "e" [] b = "F" -> "f" [] b = "G" -> "g" [] b = "H" -> "h"
    [] b = "I" -> "i" [] b = "J" -> "j" [] b = "K" -> "k" [] b = "L" -> "l"
    [] b = "M" -> "m" [] b = "N" -> "n" [] b = "O" -> "o" [] b = "P" -> "p"
    [] b = "Q" -> "q" [] b = "R" -> "r" [] b = "S" -> "s" [] b = "T" -> "t"
    [] b = "U" -> "u" [] b = "V" -> "v" [] b = "W" -> "w" [] b = "X" -> "x"
    [] b = "Y" -> "y" [] b = "Z" -> "z"
    [] OTHER -> b

\* str::to_lowercase (the only non-ASCII character of the model, U+00E9, is
\* lower case already)
to_lowercase(s) == [i \in 1..Len(s) |-> ascii_lower(s[i])]

\* str::starts_with
starts_with(s, prefix) ==
  /\ Len(prefix) <= Len(s)
  /\ SubSeq(s, 1, Len(prefix)) = prefix

\* a suffix test that ignores the case of the string
ends_with_any_case(s, suffix) ==
  /\ Len(suffix) <= Len(s)
  /\ to_lowercase(SubSeq(s, Len(s) - Len(suffix) + 1, Len(s))) = suffix

\* str::ends_with
ends_with(s, suffix) ==
  /\ Len(suffix) <= Len(s)
  /\ SubSeq(s, Len(s) - Len(suffix) + 1, Len(s)) = suffix

\* str::contains
contains(s, sub) ==
  \E i \in 1..(Len(s) + 1) :
    /\ i + Len(sub) - 1 <= Len(s)
    /\ SubSeq(s, i, i + Len(sub) - 1) = sub

RECURSIVE split_acc(_, _, _, _)
split_acc(s, seps, piece, acc) ==
  IF s = << >> THEN Append(acc, piece)
  ELSE IF Head(s) \in seps
       THEN split_acc(Tail(s), seps, << >>, Append(acc, piece))
       ELSE split_acc(Tail(s), seps, Append(piece, Head(s)), acc)

\* str::split on a set of separator bytes: empty pieces are kept
split(s, seps) == split_acc(s, seps, << >>, << >>)

\* str::split_whitespace: the non-empty pieces between runs of whitespace
split_whitespace(s) == SelectSeq(split(s, Whitespace), LAMBDA t : t # << >>)

\* str::split_once(' '): the part before the first space, or the whole string
RECURSIVE before_space(_)
before_space(s) ==
  IF s = << >> THEN << >>
  ELSE IF Head(s) = " " THEN << >>
  ELSE <<Head(s)>> \o before_space(Tail(s))

\* std::str::from_utf8 succeeds: every byte is ASCII or part of a well-formed
\* two-byte character
RECURSIVE is_utf8(_)
is_utf8(s) ==
  IF s = << >> THEN TRUE
  ELSE IF Head(s) \in InvalidBytes \/ Head(s) \in ContinuationBytes THEN FALSE
  ELSE IF Head(s) \in LeadBytes
       THEN /\ Len(s) >= 2
            /\ s[2] \in ContinuationBytes
            /\ is_utf8(Tail(Tail(s)))
       ELSE is_utf8(Tail(s))

\* str::is_char_boundary(i), i a byte offset counted from 0
is_char_boundary(s, i) ==
  \/ i = 0
  \/ i = Len(s)
  \/ (i < Len(s) /\ s[i + 1] \notin ContinuationBytes)

\* the number of characters instead of the number of bytes
char_count(s) == Cardinality({i \in 1..Len(s) : s[i] \notin ContinuationBytes})

\* String::len: the number of bytes
str_len(s) == Len(s)

---------------------------------------------------------------------------
(* The filesystem.  A location is the sequence of the names on the way     *)
(* from "/" to it.  A filesystem state is the set of its regular files,    *)
(* each with its bytes; the directories are the root directory and the     *)
(* ancestors of the files.                                                 *)

\* get_pages_directory: <directory of the executable>/pages, here /r
pages_dir == <<"/", "r">>
pages_loc == << <<"r">> >>

IsPrefix(p, q) == Len(p) <= Len(q) /\ SubSeq(q, 1, Len(p)) = p

IsFile(f, loc) == \E e \in f : e.loc = loc
IsDir(f, loc) ==
  \/ IsPrefix(loc, pages_loc)
  \/ \E e \in f : IsPrefix(loc, e.loc) /\ loc # e.loc
FileBytes(f, loc) == (CHOOSE e \in f : e.loc = loc).bytes

Parent(loc) == IF loc = << >> THEN << >> ELSE SubSeq(loc, 1, Len(loc) - 1)

\* Path lookup by the operating system: walk the names of an absolute path
\* from "/"; "" and "." stay, ".." goes up, a name below a regular file or
\* below nothing is an error.
RECURSIVE walk(_, _, _)
walk(f, at, rest) ==
  IF rest = << >>
  THEN [found |-> IsFile(f, at) \/ IsDir(f, at), loc |-> at]
  ELSE IF ~IsDir(f, at) THEN [found |-> FALSE, loc |-> at]
  ELSE LET c == Head(rest) IN
       IF c = << >> \/ c = <<".">> THEN walk(f, at, Tail(rest))
       ELSE IF c = <<".", ".">> THEN walk(f, Parent(at), Tail(rest))
       ELSE walk(f, Append(at, c), Tail(rest))

lookup(f, p) == walk(f, << >>, split(p, {"/"}))

\* Path::join: an absolute argument replaces the base; otherwise it is
\* appended after a separator
path_join(base, p) ==
  IF p # << >> /\ Head(p) = "/" THEN p
  ELSE IF base # << >> /\ base[Len(base)] = "/" THEN base \o p
  ELSE base \o <<"/">> \o p

\* Path::exists
exists(f, p) == lookup(f, p).found

\* fs::read_to_string: Ok(text) for a regular file that holds UTF-8
read_to_string(f, p) ==
  LET r == lookup(f, p) IN
  IF r.found /\ IsFile(f, r.loc) /\ is_utf8(FileBytes(f, r.loc))
  THEN [ok |-> TRUE, content |-> FileBytes(f, r.loc)]
  ELSE [ok |-> FALSE, content |-> << >>]

---------------------------------------------------------------------------
(* send_error_response and handle_connection, from the collected lines on. *)

BAD_REQUEST == <<"4", "0", "0", " ", "B", "a", "d", " ", "R", "e", "q", "u", "e", "s", "t">>
METHOD_NOT_ALLOWED == <<"4", "0", "5", " ", "M", "e", "t", "h", "o", "d", " ", "N", "o", "t", " ", "A", "l", "l", "o", "w", "e", "d">>
FORBIDDEN == <<"4", "0", "3", " ", "F", "o", "r", "b", "i", "d", "d", "e", "n">>
NOT_FOUND == <<"4", "0", "4", " ", "N", "o", "t", " ", "F", "o", "u", "n", "d">>
INTERNAL_ERROR == <<"5", "0", "0", " ", "I", "n", "t", "e", "r", "n", "a", "l", " ", "S", "e", "r", "v", "e", "r", " ", "E", "r", "r", "o", "r">>
OK == <<"2", "0", "0", " ", "O", "K">>

\* the custom error page looked up for a status line
error_page_path(status) == path_join(pages_dir, before_space(status) \o <<".", "h", "t", "m", "l">>)

\* a page that exists is served without regard to the outcome of reading it
serves_error_page_unread(f, status, try_html) ==
  /\ try_html
  /\ exists(f, error_page_path(status))

\* the custom page is looked up for every status
serves_error_page_always(f, status, try_html) ==
  /\ exists(f, error_page_path(status))
  /\ read_to_string(f, error_page_path(status)).ok

\* whether the custom page of a status is served
serves_error_page(f, status, try_html) ==
  /\ try_html
  /\ exists(f, error_page_path(status))
  /\ read_to_string(f, error_page_path(status)).ok

send_error_response(f, status, message, try_html) ==
  LET html == serves_error_page(f, status, try_html)
      content == IF html THEN read_to_string(f, error_page_path(status)).content
                 ELSE message
      content_type == IF html THEN "text/html" ELSE "text/plain"
  IN [response |-> [status |-> status,
                    content_type |-> content_type,
                    content_length |-> str_len(content),
                    connection |-> "close",
                    body |-> content],
      probed |-> IF try_html THEN {error_page_path(status)} ELSE {},
      opened |-> IF try_html /\ exists(f, error_page_path(status))
                 THEN {error_page_path(status)} ELSE {}]

\* line 83: the request line is malformed
too_few_parts(parts) == Len(parts) < 2

\* the method compared without regard to case
is_get_any_case(method) == to_lowercase(method) = <<"g", "e", "t">>

\* line 92: only GET is served
is_get(method) == method = <<"G", "E", "T">>

\* the root path served as it stands
root_kept(path) == path

\* lines 98-100: the root path
root_to_index(path) == IF path = <<"/">> THEN <<"/", "i", "n", "d", "e", "x", ".", "h", "t", "m", "l">> ELSE path

\* only a leading "/.." is refused
is_traversal_leading(path) == starts_with(path, <<"/", ".", ".">>)

\* only a ".." that follows a "/" is refused
is_traversal_after_slash(path) == contains(path, <<"/", ".", ".">>)

\* line 103: the traversal check
is_traversal(path) == contains(path, <<".", ".">>)

\* line 110: &path[1..] panics when byte offset 1 is past the end or inside a
\* character
slice_panics(path) == Len(path) < 1 \/ ~is_char_boundary(path, 1)
strip_first(path) == SubSeq(path, 2, Len(path))

\* any line that starts with "connection:" and contains "keep-alive" decides
connection_header_any(lines) ==
  IF \E i \in 1..Len(lines) :
       /\ starts_with(to_lowercase(lines[i]), <<"c", "o", "n", "n", "e", "c", "t", "i", "o", "n", ":">>)
       /\ contains(to_lowercase(lines[i]), <<"k", "e", "e", "p", "-", "a", "l", "i", "v", "e">>)
  THEN "keep-alive" ELSE "close"

\* lines 131-139: the first line that starts with "connection:" decides
RECURSIVE connection_header(_)
connection_header(lines) ==
  IF lines = << >> THEN "close"
  ELSE IF starts_with(to_lowercase(Head(lines)), <<"c", "o", "n", "n", "e", "c", "t", "i", "o", "n", ":">>)
       THEN IF contains(to_lowercase(Head(lines)), <<"k", "e", "e", "p", "-", "a", "l", "i", "v", "e">>)
            THEN "keep-alive" ELSE "close"
       ELSE connection_header(Tail(lines))

get_content_type(filename) ==
  IF ends_with(filename, <<".", "h", "t", "m", "l">>) THEN "text/html"
  ELSE IF ends_with(filename, <<".", "c", "s", "s">>) THEN "text/css"
  ELSE IF ends_with(filename, <<".", "j", "s">>) THEN "application/javascript"
  ELSE IF ends_with(filename, <<".", "p", "n", "g">>) THEN "image/png"
  ELSE IF ends_with(filename, <<".", "j", "p", "g">>) \/ ends_with(filename, <<".", "j", "p", "e", "g">>) THEN "image/jpeg"
  ELSE IF ends_with(filename, <<".", "g", "i", "f">>) THEN "image/gif"
  ELSE IF ends_with(filename, <<".", "s", "v", "g">>) THEN "image/svg+xml"
  ELSE IF ends_with(filename, <<".", "i", "c", "o">>) THEN "image/x-icon"
  ELSE IF ends_with(filename, <<".", "t", "x", "t">>) THEN "text/plain"
  ELSE IF ends_with(filename, <<".", "p", "d", "f">>) THEN "application/pdf"
  ELSE "application/octet-stream"

NoResponse ==
  [status |-> << >>, content_type |-> "", content_length |-> 0,
   connection |-> "", body |-> << >>]

\* first().unwrap() at line 80 and the slice at line 110 panic
Panicked(probed, opened) ==
  [kind |-> "panic", response |-> NoResponse, probed |-> probed, opened |-> opened]

Responded(r, probed, opened) ==
  [kind |-> "response", response |-> r.response,
   probed |-> probed \cup r.probed, opened |-> opened \cup r.opened]

\* lines 109-165: the target is resolved, read and served
serve_file(f, lines, path) ==
  LET filename == strip_first(path)
      full_path == path_join(pages_dir, filename)
      contents == read_to_string(f, full_path)
  IN IF ~exists(f, full_path)
     THEN Responded(send_error_response(f, NOT_FOUND, <<"F", "i", "l", "e", " ", "N", "o", "t", " ", "F", "o", "u", "n", "d">>, TRUE),
                    {full_path}, {})
     ELSE IF ~contents.ok
     THEN Responded(send_error_response(f, INTERNAL_ERROR, <<"E", "r", "r", "o", "r", " ", "r", "e", "a", "d", "i", "n", "g", " ", "f", "i", "l", "e">>, FALSE),
                    {full_path}, {full_path})
     ELSE [kind |-> "response",
           response |-> [status |-> OK,
                         content_type |-> get_content_type(filename),
                         content_length |-> str_len(contents.content),
                         connection |-> connection_header(lines),
                         body |-> contents.content],
           probed |-> {full_path}, opened |-> {full_path}]

\* lines 79-165: handle_connection once the lines up to the blank line are
\* collected.  The result is the response handed to write_all, or a panic,
\* with the paths given to Path::exists (probed) and to fs::read_to_string
\* (opened).
handle_request(f, lines) ==
  IF lines = << >> THEN Panicked({}, {})
  ELSE LET request_line == Head(lines)
           parts == split_whitespace(request_line)
       IN IF too_few_parts(parts)
          THEN Responded(send_error_response(f, BAD_REQUEST, <<"B", "a", "d", " ", "R", "e", "q", "u", "e", "s", "t">>, FALSE), {}, {})
          ELSE LET method == parts[1]
                   path == root_to_index(parts[2])
               IN IF ~is_get(method)
                  THEN Responded(send_error_response(f, METHOD_NOT_ALLOWED,
                                                     <<"M", "e", "t", "h", "o", "d", " ", "N", "o", "t", " ", "A", "l", "l", "o", "w", "e", "d">>, FALSE), {}, {})
                  ELSE IF is_traversal(path)
                  THEN Responded(send_error_response(f, FORBIDDEN,
                                     <<"D", "i", "r", "e", "c", "t", "o", "r", "y", " ", "t", "r", "a", "v", "e", "r", "s", "a", "l", " ", "n", "o", "t", " ", "a", "l", "l", "o", "w", "e", "d">>, TRUE), {}, {})
                  ELSE IF slice_panics(path) THEN Panicked({}, {})
                  ELSE serve_file(f, lines, path)

---------------------------------------------------------------------------
(* The inputs. *)

PathAlphabet == {"/", ".", "a"}

RECURSIVE StringsUpTo(_, _)
StringsUpTo(alphabet, n) ==
  IF n = 0 THEN {<< >>}
  ELSE LET shorter == StringsUpTo(alphabet, n - 1)
       IN shorter \cup {Append(s, b) : s \in shorter, b \in alphabet}

GeneratedPaths == StringsUpTo(PathAlphabet, MaxPathLen) \ {<< >>}

NamedPaths ==
  {<<"/", "a">>, <<"/">>, <<"/", "i", "n", "d", "e", "x", ".", "h", "t", "m", "l">>, <<"/", "4", "0", "4", ".", "h", "t", "m", "l">>, <<"/", ".", ".", "/", "a">>, <<"/", "a", "?", "q">>, <<"/", "C3", "A9">>, <<"C3", "A9", "/">>}

Methods == {<<"G", "E", "T">>, <<"g", "e", "t">>, <<"P", "O", "S", "T">>}

\* GET of every generated target
PathLines == {<<"G", "E", "T", " ">> \o p : p \in GeneratedPaths}

\* every method on the named targets, with and without a version; lines of
\* fewer than two tokens
NamedLines ==
  {m \o <<" ">> \o p : m \in Methods, p \in NamedPaths}
    \cup {<<"G", "E", "T", "\t">> \o p \o <<" ", " ", "H", "T", "T", "P", "/", "1", ".", "1">> : p \in NamedPaths}
    \cup {<<" ">>, <<"G", "E", "T">>, <<"G", "E", "T", " ">>, <<" ", "/", "a">>}

\* the request lines every list of header lines is tried on: answered 200 or
\* 404, 405, 403 and 400
ProbeLines == {<<"G", "E", "T", " ", "/", "a">>, <<"P", "O", "S", "T", " ", "/", "a">>, <<"G", "E", "T", " ", "/", ".", ".">>, <<" ">>}

HeaderLines ==
  {<<"C", "o", "n", "n", "e", "c", "t", "i", "o", "n", ":", " ", "k", "e", "e", "p", "-", "a", "l", "i", "v", "e">>, <<"C", "O", "N", "N", "E", "C", "T", "I", "O", "N", ":", " ", "K", "e", "e", "p", "-", "A", "l", "i", "v", "e">>, <<"C", "o", "n", "n", "e", "c", "t", "i", "o", "n", ":", " ", "c", "l", "o", "s", "e">>,
   <<"H", "o", "s", "t", ":", " ", "a">>, <<"c", "o", "n", "n", "e", "c", "t", "i", "o", "n", ":", "n", "o", "-", "k", "e", "e", "p", "-", "a", "l", "i", "v", "e">>}

PathHeaderLists == {<< >>, <<<<"C", "o", "n", "n", "e", "c", "t", "i", "o", "n", ":", " ", "k", "e", "e", "p", "-", "a", "l", "i", "v", "e">>>>}

RECURSIVE SeqsUpTo(_, _)
SeqsUpTo(S, n) ==
  IF n = 0 THEN {<< >>}
  ELSE LET shorter == SeqsUpTo(S, n - 1)
       IN shorter \cup {Append(s, x) : s \in shorter, x \in S}

HeaderLists == SeqsUpTo(HeaderLines, MaxHeaders)

\* what take_while(non-empty) can collect: nothing, or a non-empty first line
\* followed by non-empty lines
Requests ==
  {<< >>}
    \cup {<<l>> \o h : l \in PathLines \cup NamedLines, h \in PathHeaderLists}
    \cup {<<l>> \o h : l \in ProbeLines, h \in HeaderLists}

File(loc, bytes) == [loc |-> loc, bytes |-> bytes]

FileEntries ==
  {File(<<<<"r">>, <<"a">>>>, <<"h", "i">>),
   File(<<<<"r">>, <<"a">>>>, <<"FF">>),
   File(<<<<"r">>, <<"i", "n", "d", "e", "x", ".", "h", "t", "m", "l">>>>, <<"C3", "A9", "!">>),
   File(<<<<"r">>, <<"4", "0", "4", ".", "h", "t", "m", "l">>>>, <<"n", "C3", "A9">>),
   File(<<<<"r">>, <<"4", "0", "4", ".", "h", "t", "m", "l">>>>, <<"FF">>),
   File(<<<<"r">>, <<"4", "0", "3", ".", "h", "t", "m", "l">>>>, <<"n", "o">>),
   File(<<<<"r">>, <<"4", "0", "5", ".", "h", "t", "m", "l">>>>, <<"n", "a">>),
   File(<<<<"a">>>>, <<"s", "3">>)}

FsStates ==
  {f \in SUBSET FileEntries :
     /\ Cardinality(f) <= MaxFiles
     /\ \A e1, e2 \in f : e1.loc = e2.loc => e1 = e2}

---------------------------------------------------------------------------
(* The connections.  A client follows a script: the items its side of the  *)
(* stream delivers, in order.  An item is a line without its line ending,  *)
(* the end of the stream, or a failed read.                                *)

Line(bytes) == [kind |-> "line", bytes |-> bytes]
Eof == [kind |-> "eof", bytes |-> << >>]
ReadError == [kind |-> "err", bytes |-> << >>]

ClientScripts ==
  {<<Line(<<"G", "E", "T", " ", "/", "a">>), Line(<< >>)>>,
   <<Line(<<"G", "E", "T", " ", "/", "a">>), Line(<<"C", "o", "n", "n", "e", "c", "t", "i", "o", "n", ":", " ", "k", "e", "e", "p", "-", "a", "l", "i", "v", "e">>), Line(<< >>),
     Line(<<"G", "E", "T", " ", "/", "a">>), Line(<< >>)>>,
   <<Line(<<"G", "E", "T", " ", "C3", "A9">>), Line(<< >>)>>,
   <<Line(<<"P", "O", "S", "T", " ", "/", "a">>), Line(<< >>)>>,
   <<Line(<<"G", "E", "T", " ", "/", "a">>), Eof>>,
   <<Eof>>,
   <<Line(<< >>)>>,
   <<Line(<<"G", "E", "T", " ", "/", "a">>), ReadError>>,
   <<Line(<<"FF">>)>>}

ServerFiles == {File(<<<<"r">>, <<"a">>>>, <<"h", "i">>)}

Conns == 1..MaxConns

Unopened ==
  [state |-> "unopened", script |-> << >>, sent |-> 0, consumed |-> 0,
   writes |-> 0, outcome |-> "none", received |-> NoResponse]

NoResult == [kind |-> "none", response |-> NoResponse, probed |-> {}, opened |-> {}]

\* what BufReader::lines yields for an item: Some(Ok(line)), Some(Err(e)) or None
lines_next(item) ==
  IF item.kind = "line" /\ is_utf8(item.bytes) THEN "ok"
  ELSE IF item.kind = "eof" THEN "none"
  ELSE "err"

\* line 69: take_while stops at the first empty line
ends_headers(item) ==
  \/ lines_next(item) = "none"
  \/ (lines_next(item) = "ok" /\ item.bytes = << >>)

\* the item the blocked read of the handler gets next, when the client has
\* sent it
Available == cur # 0 /\ conns[cur].consumed < conns[cur].sent
NextItem == conns[cur].script[conns[cur].consumed + 1]

Init ==
  /\ fs \in {f \in FsStates : f \subseteq ServerFiles}
  /\ http_request = << >>
  /\ result = NoResult
  /\ pc = "accept"
  /\ conns = [c \in Conns |-> Unopened]
  /\ cur = 0

\* a client connects; the connection waits in the backlog of the listener
Connect(c, script) ==
  /\ pc # "crashed"
  /\ conns[c].state = "unopened"
  /\ \A d \in Conns : d < c => conns[d].state # "unopened"
  /\ conns' = [conns EXCEPT ![c].state = "backlog", ![c].script = script]
  /\ UNCHANGED <<fs, http_request, result, pc, cur>>

\* a client sends the next item of its script
ClientSend(c) ==
  /\ pc # "crashed"
  /\ conns[c].state \in {"backlog", "accepted"}
  /\ conns[c].sent < Len(conns[c].script)
  /\ conns' = [conns EXCEPT ![c].sent = @ + 1]
  /\ UNCHANGED <<fs, http_request, result, pc, cur>>

\* the listener accepts while a handler runs
can_accept_while_handling == pc \in {"accept", "reading"}

\* lines 29-33: the listener loop is at incoming() and no handler runs
can_accept == pc = "accept"

\* lines 66-70: collect() builds a new vector in every call
new_request == << >>

\* lines 29-33: main takes the oldest waiting connection and calls
\* handle_connection on it
Accept ==
  /\ can_accept
  /\ \E c \in Conns :
       /\ conns[c].state = "backlog"
       /\ \A d \in Conns : d < c => conns[d].state # "backlog"
       /\ conns' = [conns EXCEPT ![c].state = "accepted"]
       /\ cur' = c
  /\ http_request' = new_request
  /\ pc' = "reading"
  /\ UNCHANGED <<fs, result>>

\* lines 66-70: a non-empty line is collected
ReadLine ==
  /\ pc = "reading"
  /\ Available
  /\ lines_next(NextItem) = "ok"
  /\ ~ends_headers(NextItem)
  /\ http_request' = Append(http_request, NextItem.bytes)
  /\ conns' = [conns EXCEPT ![cur].consumed = @ + 1]
  /\ UNCHANGED <<fs, result, pc, cur>>

\* line 68: result.unwrap() panics on a failed read; the panic unwinds main
ReadFail ==
  /\ pc = "reading"
  /\ Available
  /\ lines_next(NextItem) = "err"
  /\ conns' = [conns EXCEPT ![cur].consumed = @ + 1, ![cur].outcome = "read_failed"]
  /\ pc' = "crashed"
  /\ UNCHANGED <<fs, http_request, result, cur>>

\* the handler goes back to reading after a keep-alive response
returns_unless_keep_alive(r) == r.response.connection # "keep-alive"

\* lines 161-165 and 206-209: write_all is the last statement on every path;
\* the function returns after it and the stream is dropped
handler_returns(r) == TRUE

\* lines 79-165: the headers have ended; the request is handled and the
\* response written.  write_all may fail: the failure is logged and the
\* handler returns.
Respond ==
  /\ pc = "reading"
  /\ Available
  /\ ends_headers(NextItem)
  /\ LET r == handle_request(fs, http_request) IN
       /\ result' = r
       /\ IF r.kind = "panic"
          THEN /\ pc' = "crashed"
               /\ conns' = [conns EXCEPT
                    ![cur].consumed = @ + 1,
                    ![cur].outcome = IF http_request = << >> THEN "read_failed"
                                     ELSE "panicked"]
               /\ cur' = cur
               /\ http_request' = http_request
          ELSE /\ pc' = IF handler_returns(r) THEN "accept" ELSE "reading"
               /\ cur' = IF handler_returns(r) THEN 0 ELSE cur
               /\ http_request' = IF handler_returns(r) THEN http_request ELSE << >>
               /\ \E write_ok \in BOOLEAN :
                    conns' = [conns EXCEPT
                      ![cur].consumed = @ + 1,
                      ![cur].writes = @ + 1,
                      ![cur].state = IF handler_returns(r) THEN "closed" ELSE @,
                      ![cur].outcome = IF write_ok THEN "served" ELSE "write_failed",
                      ![cur].received = IF write_ok THEN r.response ELSE NoResponse]
  /\ UNCHANGED fs

ServerStep == Accept \/ ReadLine \/ ReadFail \/ Respond

Next ==
  \/ \E c \in Conns, script \in ClientScripts : Connect(c, script)
  \/ \E c \in Conns : ClientSend(c)
  \/ Accept
  \/ ReadLine
  \/ ReadFail
  \/ Respond

Spec == Init /\ [][Next]_vars

---------------------------------------------------------------------------
(* One request against one filesystem state. *)

InitHandle ==
  /\ fs \in FsStates
  /\ http_request \in Requests
  /\ result = NoResult
  /\ pc = "collected"
  /\ conns = [c \in Conns |-> Unopened]
  /\ cur = 0

Handle ==
  /\ pc = "collected"
  /\ result' = handle_request(fs, http_request)
  /\ pc' = "done"
  /\ UNCHANGED <<fs, http_request, conns, cur>>

NextHandle == Handle

SpecHandle == InitHandle /\ [][NextHandle]_vars

---------------------------------------------------------------------------
(* The handler applied to one GET for a file of a given name.               *)

\* file names: a stem and the suffixes of the table of get_content_type, in
\* lower, upper and mixed case, with near misses
TypeStems == {<<"a">>, <<"a", ".", "j", "s">>, <<"i", "n", "d", "e", "x">>}
TypeSuffixes ==
  {<< >>, <<".", "h", "t", "m", "l">>, <<".", "H", "T", "M", "L">>, <<".", "H", "t", "m", "l">>, <<".", "h", "t", "m">>, <<"h", "t", "m", "l">>, <<".", "c", "s", "s">>, <<".", "C", "S", "S">>,
   <<".", "j", "s">>, <<".", "J", "S">>, <<".", "p", "n", "g">>, <<".", "P", "N", "G">>, <<".", "j", "p", "g">>, <<".", "j", "p", "e", "g">>, <<".", "J", "P", "G">>, <<".", "j", "p", "e">>,
   <<".", "g", "i", "f">>, <<".", "s", "v", "g">>, <<".", "i", "c", "o">>, <<".", "t", "x", "t">>, <<".", "T", "X", "T">>, <<".", "p", "d", "f">>, <<".", "b", "i", "n">>,
   <<".", "h", "t", "m", "l", ".", "b", "a", "k">>, <<".", "p", "d", "f", ".", "c", "s", "s">>}
TypeNames == {stem \o suffix : stem \in TypeStems, suffix \in TypeSuffixes}

\* the file is missing, text, or not text
TypeFsStates(name) ==
  {{}, {File(<<<<"r">>, name>>, <<"h", "i">>)}, {File(<<<<"r">>, name>>, <<"FF">>)}}

TypeRequests(name) ==
  {<<<<"G", "E", "T", " ", "/">> \o name>>}
    \cup (IF name = <<"i", "n", "d", "e", "x", ".", "h", "t", "m", "l">> THEN {<<<<"G", "E", "T", " ", "/">>>>} ELSE {})

InitType ==
  /\ \E name \in TypeNames :
       /\ fs \in TypeFsStates(name)
       /\ http_request \in TypeRequests(name)
  /\ result = NoResult
  /\ pc = "collected"
  /\ conns = [c \in Conns |-> Unopened]
  /\ cur = 0

SpecType == InitType /\ [][NextHandle]_vars

---------------------------------------------------------------------------
(* What the claims speak of, stated on the request and the filesystem.     *)

Done == pc = "done"
Answered == Done /\ result.kind = "response"
Status == result.response.status

\* the tokens of the request line
Tokens == IF http_request = << >> THEN << >> ELSE split_whitespace(Head(http_request))
HasTarget == Len(Tokens) >= 2
Method == Tokens[1]
\* the request target, "/" standing for "/index.html"
Target == IF Tokens[2] = <<"/">> THEN <<"/", "i", "n", "d", "e", "x", ".", "h", "t", "m", "l">> ELSE Tokens[2]

HasDotDot(p) == \E i \in 1..(Len(p) - 1) : p[i] = "." /\ p[i + 1] = "."

\* the target without its first byte, joined onto the root
TargetPath == path_join(pages_dir, SubSeq(Target, 2, Len(Target)))
\* the target joined onto the root as it stands
NaivePath == pages_dir \o Target
UnderRoot(p) == IsPrefix(pages_loc, lookup(fs, p).loc)

TargetExists == lookup(fs, TargetPath).found
TargetIsText ==
  /\ TargetExists
  /\ IsFile(fs, lookup(fs, TargetPath).loc)
  /\ is_utf8(FileBytes(fs, lookup(fs, TargetPath).loc))
TargetBytes == FileBytes(fs, lookup(fs, TargetPath).loc)

\* <root>/<status-code>.html
PageOf(status) == pages_dir \o <<"/">> \o SubSeq(status, 1, 3) \o <<".", "h", "t", "m", "l">>
PageExists(status) == lookup(fs, PageOf(status)).found
PageIsText(status) ==
  /\ PageExists(status)
  /\ IsFile(fs, lookup(fs, PageOf(status)).loc)
  /\ is_utf8(FileBytes(fs, lookup(fs, PageOf(status)).loc))
PageBytes(status) == FileBytes(fs, lookup(fs, PageOf(status)).loc)

DefaultMessage(status) ==
  CASE status = BAD_REQUEST -> <<"B", "a", "d", " ", "R", "e", "q", "u", "e", "s", "t">>
    [] status = METHOD_NOT_ALLOWED -> <<"M", "e", "t", "h", "o", "d", " ", "N", "o", "t", " ", "A", "l", "l", "o", "w", "e", "d">>
    [] status = FORBIDDEN -> <<"D", "i", "r", "e", "c", "t", "o", "r", "y", " ", "t", "r", "a", "v", "e", "r", "s", "a", "l", " ", "n", "o", "t", " ", "a", "l", "l", "o", "w", "e", "d">>
    [] status = NOT_FOUND -> <<"F", "i", "l", "e", " ", "N", "o", "t", " ", "F", "o", "u", "n", "d">>
    [] status = INTERNAL_ERROR -> <<"E", "r", "r", "o", "r", " ", "r", "e", "a", "d", "i", "n", "g", " ", "f", "i", "l", "e">>
    [] OTHER -> << >>

---------------------------------------------------------------------------
(* C1 *)

C1_Expected ==
  IF ~HasTarget THEN BAD_REQUEST
  ELSE IF Method # <<"G", "E", "T">> THEN METHOD_NOT_ALLOWED
  ELSE IF HasDotDot(Target) THEN FORBIDDEN
  ELSE IF ~TargetExists THEN NOT_FOUND
  ELSE IF ~TargetIsText THEN INTERNAL_ERROR
  ELSE OK

\* C1: every response carries the status of the first condition, in the
\* order 400, 405, 403, 404, 500, 200, that the request meets, and a 200
\* response carries the contents of the file.
C1_FirstMatchWins ==
  Answered =>
    /\ Status = C1_Expected
    /\ (Status = OK => result.response.body = TargetBytes)

\* a request that meets the conditions of 405 and of 403 is answered 405
C1_Witness ==
  /\ Answered
  /\ HasTarget
  /\ Method # <<"G", "E", "T">>
  /\ HasDotDot(Target)
  /\ Status = METHOD_NOT_ALLOWED

---------------------------------------------------------------------------
(* C2 *)

\* C2: the file whose contents form the body of a 200 response is under the
\* root directory.
C2_Containment ==
  (Answered /\ Status = OK) => \A p \in result.opened : UnderRoot(p)

---------------------------------------------------------------------------
(* C3 *)

\* C3: a GET whose target contains ".." is answered 403, whether or not the
\* target joined onto the root exists, and the target is neither looked up
\* nor read.
C3_TraversalForbidden ==
  (Done /\ HasTarget /\ Method = <<"G", "E", "T">> /\ HasDotDot(Target)) =>
    /\ result.kind = "response"
    /\ Status = FORBIDDEN
    /\ result.probed \subseteq {PageOf(FORBIDDEN)}
    /\ result.opened \subseteq {PageOf(FORBIDDEN)}

\* a traversal target that names an existing file is answered 403
C3_Witness ==
  /\ Answered
  /\ HasTarget
  /\ Method = <<"G", "E", "T">>
  /\ HasDotDot(Target)
  /\ lookup(fs, NaivePath).found
  /\ IsFile(fs, lookup(fs, NaivePath).loc)
  /\ Status = FORBIDDEN

---------------------------------------------------------------------------
(* C4 *)

\* C4: a request of at least two tokens whose method is not exactly GET is
\* answered 405, whatever its path.
C4_MethodNotAllowed ==
  (Done /\ HasTarget /\ Method # <<"G", "E", "T">>) =>
    /\ result.kind = "response"
    /\ Status = METHOD_NOT_ALLOWED

\* "get" on an existing file is answered 405
C4_Witness ==
  /\ Answered
  /\ HasTarget
  /\ Method = <<"g", "e", "t">>
  /\ TargetIsText
  /\ Status = METHOD_NOT_ALLOWED

---------------------------------------------------------------------------
(* C5 *)

\* C5: after a failure to read a request or to write a response on one
\* connection the listener loop is still running.
C5_ListenerSurvives ==
  \A c \in Conns :
    conns[c].outcome \in {"read_failed", "write_failed"} => pc # "crashed"

---------------------------------------------------------------------------
(* C6 *)

\* the client of c has sent a whole request: a request line and the blank line
SentWholeRequest(c) ==
  /\ conns[c].sent = Len(conns[c].script)
  /\ Len(conns[c].script) >= 2
  /\ conns[c].script[1].kind = "line"
  /\ conns[c].script[1].bytes # << >>
  /\ conns[c].script[Len(conns[c].script)] = Line(<< >>)

\* the handler of c waits for its client, which has not ended its headers
WaitsForClient(c) ==
  /\ pc = "reading"
  /\ cur = c
  /\ conns[c].state = "accepted"
  /\ conns[c].consumed = conns[c].sent
  /\ conns[c].sent < Len(conns[c].script)

---------------------------------------------------------------------------
(* C7 *)

\* C7: the Content-Length of a response is the number of bytes of its body.
C7_ContentLength ==
  Answered => result.response.content_length = Len(result.response.body)

\* a body with a character of two bytes
C7_Witness ==
  /\ Answered
  /\ \E i \in 1..Len(result.response.body) : result.response.body[i] \in LeadBytes
  /\ result.response.content_length = 3

---------------------------------------------------------------------------
(* C8 *)

\* the GET requests the 404 law is about: the target begins with "/", has no
\* "..", and nothing exists where it resolves
MissingTarget ==
  /\ Done
  /\ HasTarget
  /\ Method = <<"G", "E", "T">>
  /\ Target[1] = "/"
  /\ ~HasDotDot(Target)
  /\ ~TargetExists

\* C8 as claimed: a GET of a path that does not exist is answered 404, with
\* the contents of <root>/404.html as text/html when that file exists and
\* with "File Not Found" as text/plain when it does not.
C8_Fallback404Claimed ==
  MissingTarget =>
    /\ result.kind = "response"
    /\ Status = NOT_FOUND
    /\ IF PageExists(NOT_FOUND)
       THEN /\ result.response.content_type = "text/html"
            /\ result.response.body = PageBytes(NOT_FOUND)
       ELSE /\ result.response.content_type = "text/plain"
            /\ result.response.body = <<"F", "i", "l", "e", " ", "N", "o", "t", " ", "F", "o", "u", "n", "d">>

\* C8 as amended: the custom page is served when it exists and can be read
\* as text; a page that is absent or cannot be read gives the plain message.
C8_Fallback404 ==
  MissingTarget =>
    /\ result.kind = "response"
    /\ Status = NOT_FOUND
    /\ IF PageIsText(NOT_FOUND)
       THEN /\ result.response.content_type = "text/html"
            /\ result.response.body = PageBytes(NOT_FOUND)
       ELSE /\ result.response.content_type = "text/plain"
            /\ result.response.body = <<"F", "i", "l", "e", " ", "N", "o", "t", " ", "F", "o", "u", "n", "d">>

\* a missing target while 404.html exists and cannot be read as text
C8_Witness ==
  /\ MissingTarget
  /\ PageExists(NOT_FOUND)
  /\ ~PageIsText(NOT_FOUND)
  /\ result.response.content_type = "text/plain"

---------------------------------------------------------------------------
(* C9 *)

\* C9 as claimed: every response other than 200 serves <root>/<code>.html
\* when it exists and can be read, and the default message otherwise.
C9_FallbackAllClaimed ==
  (Answered /\ Status # OK) =>
    IF PageIsText(Status)
    THEN /\ result.response.content_type = "text/html"
         /\ result.response.body = PageBytes(Status)
    ELSE /\ result.response.content_type = "text/plain"
         /\ result.response.body = DefaultMessage(Status)

\* C9 as amended: only 403 and 404 look for a custom page; 400, 405 and 500
\* always carry the default message as text/plain.
C9_FallbackForbiddenNotFound ==
  (Answered /\ Status # OK) =>
    IF Status \in {FORBIDDEN, NOT_FOUND} /\ PageIsText(Status)
    THEN /\ result.response.content_type = "text/html"
         /\ result.response.body = PageBytes(Status)
    ELSE /\ result.response.content_type = "text/plain"
         /\ result.response.body = DefaultMessage(Status)

\* a 405 while 405.html exists and can be read
C9_Witness ==
  /\ Answered
  /\ Status = METHOD_NOT_ALLOWED
  /\ PageIsText(METHOD_NOT_ALLOWED)
  /\ result.response.content_type = "text/plain"
  /\ result.response.body = <<"M", "e", "t", "h", "o", "d", " ", "N", "o", "t", " ", "A", "l", "l", "o", "w", "e", "d">>

---------------------------------------------------------------------------
(* C10 *)

RECURSIVE TrimLeft(_)
TrimLeft(s) ==
  IF s # << >> /\ Head(s) \in Whitespace THEN TrimLeft(Tail(s)) ELSE s

\* line i is a Connection header whose value is keep-alive, in any case
IsKeepAliveHeader(l) ==
  /\ starts_with(to_lowercase(l), <<"c", "o", "n", "n", "e", "c", "t", "i", "o", "n", ":">>)
  /\ TrimLeft(SubSeq(to_lowercase(l), 12, Len(l))) = <<"k", "e", "e", "p", "-", "a", "l", "i", "v", "e">>

CarriesKeepAlive ==
  \E i \in 2..Len(http_request) : IsKeepAliveHeader(http_request[i])

\* the lines that start with "connection:", in any case
ConnectionLines ==
  {i \in 1..Len(http_request) :
     starts_with(to_lowercase(http_request[i]), <<"c", "o", "n", "n", "e", "c", "t", "i", "o", "n", ":">>)}

FirstConnectionLine ==
  http_request[CHOOSE i \in ConnectionLines : \A j \in ConnectionLines : i <= j]

\* C10 as claimed: a response says keep-alive exactly when the request
\* carries a Connection header whose value is keep-alive.
C10_ConnectionEchoClaimed ==
  Answered =>
    result.response.connection = IF CarriesKeepAlive THEN "keep-alive" ELSE "close"

\* C10 as amended: a 200 response says keep-alive exactly when the first line
\* of the request that starts with "connection:" contains "keep-alive", both
\* in any case; every other response says close.
C10_ConnectionEcho ==
  Answered =>
    result.response.connection =
      IF /\ Status = OK
         /\ ConnectionLines # {}
         /\ contains(to_lowercase(FirstConnectionLine), <<"k", "e", "e", "p", "-", "a", "l", "i", "v", "e">>)
      THEN "keep-alive" ELSE "close"

\* a 200 response to a request whose second Connection header says
\* keep-alive and whose first says close
C10_Witness ==
  /\ Answered
  /\ Status = OK
  /\ Len(http_request) = 3
  /\ http_request[2] = <<"C", "o", "n", "n", "e", "c", "t", "i", "o", "n", ":", " ", "c", "l", "o", "s", "e">>
  /\ http_request[3] = <<"C", "O", "N", "N", "E", "C", "T", "I", "O", "N", ":", " ", "K", "e", "e", "p", "-", "A", "l", "i", "v", "e">>
  /\ result.response.connection = "close"

---------------------------------------------------------------------------
(* C11 *)

RECURSIVE JoinTokens(_)
JoinTokens(ts) ==
  IF ts = << >> THEN << >>
  ELSE IF Len(ts) = 1 THEN ts[1]
  ELSE ts[1] \o <<" ">> \o JoinTokens(Tail(ts))

\* the request with the target "/" written out as "/index.html"
IndexRequest ==
  <<JoinTokens([Tokens EXCEPT ![2] = <<"/", "i", "n", "d", "e", "x", ".", "h", "t", "m", "l">>])>> \o Tail(http_request)

\* C11: a request for "/" gets the response the same request for
\* "/index.html" gets on the same filesystem with the same headers: status,
\* Content-Type, Content-Length, Connection and body.
C11_RootIsIndex ==
  (Done /\ HasTarget /\ Tokens[2] = <<"/">>) =>
    /\ result.kind = handle_request(fs, IndexRequest).kind
    /\ result.response = handle_request(fs, IndexRequest).response

\* GET / answered 200 with the bytes of index.html
C11_Witness ==
  /\ Answered
  /\ HasTarget
  /\ Method = <<"G", "E", "T">>
  /\ Tokens[2] = <<"/">>
  /\ Status = OK
  /\ result.response.content_type = "text/html"
  /\ result.response.body = <<"C3", "A9", "!">>

---------------------------------------------------------------------------
(* C12 *)

\* the target without one leading "/"
WithoutLeadingSlash(p) == IF p[1] = "/" THEN SubSeq(p, 2, Len(p)) ELSE p

\* C12: for a GET whose target has no "..", the one location looked up and
\* read is the root, a separator, and the target without one leading "/".
C12_ResolvesUnderRoot ==
  (Done /\ HasTarget /\ Method = <<"G", "E", "T">> /\ ~HasDotDot(Target)) =>
    /\ result.kind = "response"
    /\ pages_dir \o <<"/">> \o WithoutLeadingSlash(Target) \in result.probed
    /\ result.opened \subseteq
         {pages_dir \o <<"/">> \o WithoutLeadingSlash(Target), PageOf(NOT_FOUND)}

---------------------------------------------------------------------------
(* What the claims say of a connection. *)

\* the item at which the reading of a script stops: the first blank line,
\* end of stream or failed read
Stops(item) == lines_next(item) # "ok" \/ item.bytes = << >>
StopsAt(script) ==
  IF \E i \in 1..Len(script) : Stops(script[i])
  THEN CHOOSE i \in 1..Len(script) :
         Stops(script[i]) /\ \A j \in 1..(i - 1) : ~Stops(script[j])
  ELSE Len(script) + 1

\* the lines a script delivers before that item
LinesOf(script) == [i \in 1..(StopsAt(script) - 1) |-> script[i].bytes]

\* the handler of c is over: it returned, or the process ended in it
HandlerOver(c) ==
  \/ conns[c].state = "closed"
  \/ (conns[c].state = "accepted" /\ pc = "crashed")

\* a response with a status line, the three headers and a body of the
\* announced length
Framed(r) ==
  /\ r.status # << >>
  /\ r.content_type # ""
  /\ r.connection \in {"close", "keep-alive"}
  /\ r.content_length = Len(r.body)

---------------------------------------------------------------------------
(* C13 *)

\* C13: a connection whose handler is over got a framed response, or was
\* closed without one because the write of the response failed, and for no
\* other reason.
C13_ResponseOrWriteFailure ==
  \A c \in Conns :
    HandlerOver(c) =>
      \/ (conns[c].outcome = "served" /\ Framed(conns[c].received))
      \/ conns[c].outcome = "write_failed"

---------------------------------------------------------------------------
(* C14 *)

\* C14: at most one response is written on a connection, the handler is over
\* once it is written, and nothing is read past the end of the first request,
\* whatever the Connection header of the response.
C14_OneRequestPerConnection ==
  \A c \in Conns :
    /\ conns[c].writes <= 1
    /\ (conns[c].writes = 1 => (conns[c].state = "closed" /\ cur # c))
    /\ conns[c].consumed <= StopsAt(conns[c].script)

\* a keep-alive response was sent and the second request of the client, sent
\* in full, stays unread
C14_Witness ==
  \E c \in Conns :
    /\ conns[c].state = "closed"
    /\ conns[c].writes = 1
    /\ conns[c].received.connection = "keep-alive"
    /\ conns[c].sent = Len(conns[c].script)
    /\ conns[c].consumed < conns[c].sent
    /\ pc = "accept"

---------------------------------------------------------------------------
(* C15 *)

SameAnswer(r1, r2) ==
  /\ r1.status = r2.status
  /\ r1.content_type = r2.content_type
  /\ r1.body = r2.body

\* the client of c sent a whole GET request, blank line included
SentWholeGet(c) ==
  LET script == conns[c].script
      n == StopsAt(script) IN
    /\ n \in 2..Len(script)
    /\ lines_next(script[n]) = "ok"
    /\ conns[c].sent >= n
    /\ Len(split_whitespace(script[1].bytes)) >= 2
    /\ split_whitespace(script[1].bytes)[1] = <<"G", "E", "T">>

\* C15: a connection that sent a GET request gets the status, content type
\* and body that this request gets from the filesystem alone, whatever was
\* handled on other connections before it, and two connections that sent the
\* same GET request get the same ones.
C15_Idempotent ==
  /\ \A c, d \in Conns :
       (conns[c].outcome = "served" /\ conns[d].outcome = "served"
          /\ LinesOf(conns[c].script) = LinesOf(conns[d].script))
         => SameAnswer(conns[c].received, conns[d].received)
  /\ \A d \in Conns :
       LET alone == handle_request(fs, LinesOf(conns[d].script)) IN
         (SentWholeGet(d) /\ alone.kind = "response") =>
           \/ /\ conns[d].outcome = "served"
              /\ SameAnswer(conns[d].received, alone.response)
           \/ conns[d].outcome = "write_failed"
           \/ (conns[d].state # "closed" /\ pc # "crashed")

---------------------------------------------------------------------------
(* C16 *)

\* the part of a name from its last "." on, empty if it has none
LastDot(name) ==
  IF \E i \in 1..Len(name) : name[i] = "."
  THEN CHOOSE i \in 1..Len(name) :
         name[i] = "." /\ \A j \in (i + 1)..Len(name) : name[j] # "."
  ELSE Len(name) + 1
Extension(name) == SubSeq(name, LastDot(name), Len(name))

TableType(ext) ==
  CASE ext = <<".", "h", "t", "m", "l">> -> "text/html"
    [] ext = <<".", "c", "s", "s">> -> "text/css"
    [] ext = <<".", "j", "s">> -> "application/javascript"
    [] ext = <<".", "p", "n", "g">> -> "image/png"
    [] ext \in {<<".", "j", "p", "g">>, <<".", "j", "p", "e", "g">>} -> "image/jpeg"
    [] ext = <<".", "g", "i", "f">> -> "image/gif"
    [] ext = <<".", "s", "v", "g">> -> "image/svg+xml"
    [] ext = <<".", "i", "c", "o">> -> "image/x-icon"
    [] ext = <<".", "t", "x", "t">> -> "text/plain"
    [] ext = <<".", "p", "d", "f">> -> "application/pdf"
    [] OTHER -> "application/octet-stream"

\* C16: the Content-Type of a 200 response is the entry of the table for the
\* extension of the requested name, compared as written, and
\* application/octet-stream for every other name.
C16_ContentTypeTable ==
  (Answered /\ Status = OK) =>
    result.response.content_type = TableType(Extension(Target))

\* a file named with an upper-case .HTML is served as octet-stream
C16_Witness ==
  /\ Answered
  /\ Status = OK
  /\ Extension(Target) = <<".", "H", "T", "M", "L">>
  /\ result.response.content_type = "application/octet-stream"

---------------------------------------------------------------------------
(* C17 *)

\* C17: a request whose first line has fewer than two tokens, a request of
\* no line at all and a line of white space included, is answered with 400
\* and the handler returns.
C17_MalformedIs400 ==
  (Done /\ ~HasTarget) =>
    /\ result.kind = "response"
    /\ Status = BAD_REQUEST

---------------------------------------------------------------------------
(* C18 *)

\* the stream of c ended, or a read of it failed, before a blank line, and
\* the handler has read up to there
EndedEarly(c) ==
  LET script == conns[c].script
      n == StopsAt(script) IN
    /\ n <= Len(script)
    /\ lines_next(script[n]) # "ok"
    /\ conns[c].consumed >= n

\* C18: when the stream ends or a read fails before the blank line, the
\* lines read so far are not handled as a request: the connection gets no
\* response other than 400.
C18_EarlyEndIsNoRequest ==
  \A c \in Conns :
    EndedEarly(c) => conns[c].received.status \in {<< >>, BAD_REQUEST}

---------------------------------------------------------------------------
(* C19 *)

\* C19: a GET target that does not begin with "/" is not looked up under the
\* root with its first byte removed, and the handler returns.
C19_PathBeginsWithSlash ==
  (Done /\ HasTarget /\ Method = <<"G", "E", "T">> /\ ~HasDotDot(Target)
     /\ Target[1] # "/") =>
    /\ result.kind = "response"
    /\ TargetPath \notin result.probed

---------------------------------------------------------------------------
(* C20 *)

ValidLine(item) == item.kind = "line" /\ is_utf8(item.bytes)

\* the client of c sent a request line and headers, all of them text, and
\* then a blank line or the end of the stream
SentRequestAndEnd(c) ==
  LET script == conns[c].script
      n == StopsAt(script) IN
    /\ n \in 2..Len(script)
    /\ \A i \in 1..(n - 1) : ValidLine(script[i])
    /\ script[n] \in {Line(<< >>), Eof}
    /\ conns[c].sent >= n

\* C20: an accepted connection whose client sent its request and the blank
\* line (or closed) is never stuck: until its handler returns, the server
\* has a step to take on it.
C20_HandlerReturns ==
  \A c \in Conns :
    (conns[c].state = "accepted" /\ SentRequestAndEnd(c)) =>
      /\ pc = "reading"
      /\ cur = c
      /\ ENABLED ServerStep

===========================================================================
